---------------------------- MODULE Spec2Model ----------------------------
(***************************************************************************)
(* Model of the retrieval core of chatbotcnt and of the code around it:    *)
(*   - the retriever class (src/src/retriever/retriever.py): construction with    *)
(*     the index/metadata alignment check, and search (direct reference    *)
(*     lookup, vector stage with evidence floor and deduplication,         *)
(*     cross-encoder re-scoring, BM25 blending, final sort and cut);       *)
(*   - the context compressor (src/src/utils/context_compressor.py);       *)
(*   - the indexer (src/src/embeddings/embedding_generator.py);            *)
(*   - the context that the generator sends (src/src/generator/generator.py); *)
(*   - the inbound webhook handler (src/src/whatsapp_bot.py).              *)
(*                                                                         *)
(* Scores are fixed-point integers in units of 1/10000, so 1.0 is 10000    *)
(* and 0.35 is 3500.  Query texts are sequences of whitespace-separated    *)
(* words; article texts are sequences of characters.                       *)
(***************************************************************************)
EXTENDS Integers, Sequences, FiniteSets, TLC

VARIABLES
    status,        \* "new" | "ready" | "failed": outcome of CNTRetriever.__init__
    index_ntotal,  \* rows of the FAISS index file on disk
    meta_file,     \* lines of meta.jsonl on disk (a blank line is <<>>)
    meta,          \* self.meta
    art_to_idx,    \* self.art_to_idx (0-based row per article number)
    top_k,         \* self.top_k
    overfetch,     \* self.overfetch
    min_score,     \* self.min_score
    use_bm25,      \* self.use_bm25
    reranker,      \* self.reranker is not None
    call,          \* inputs of the last search call
    vcands,        \* candidates of the last search call after the direct and vector stages
    rcands,        \* candidates of the last search call after the cross-encoder stage
    cands,         \* candidates of the last search call right before the final sort
    outcome,       \* "none" | "returned" | "raised": how the last search call ended
    result,        \* list returned by the last search call
    cstate,        \* "idle" | "called" | "returned": compress_context call
    articles,      \* compress_context argument: list of result records
    cquery,        \* compress_context argument: query words
    max_total_chars, \* compress_context argument
    cout,          \* list returned by compress_context
    frames,        \* per concurrent search call: its position, arguments and return value
    locals,        \* per frame: the local variables candidates and seen_articles
    eg,            \* the EmbeddingGenerator: model_name and use_query_prefix, or none
    chunks,        \* the chunk list given to EmbeddingGenerator.process
    metas,         \* the metadata table process wrote (meta.jsonl)
    passages,      \* the passages process embedded, one per vector-index row
    qsent,         \* the query text a retriever of the same model name embeds
    sel,           \* the sentence loop of one compress_article call, step by step
    gen,           \* the CNTGenerator object and its generate call
    processed_messages,  \* whatsapp_bot: the ids of the deduplication cache
    handled,       \* the ids whose message got past the deduplication so far
    webhook        \* the last webhook request and what the handler did with it

vars == <<status, index_ntotal, meta_file, meta, art_to_idx, top_k, overfetch,
          min_score, use_bm25, reranker, call, vcands, rcands, cands, outcome, result,
          cstate, articles, cquery, max_total_chars, cout, frames, locals,
          eg, chunks, metas, passages, qsent, sel, gen,
          processed_messages, handled, webhook>>

tvars == <<frames, locals>>

ivars == <<eg, chunks, metas, passages, qsent>>

\* the variables of the webhook handler
wvars == <<processed_messages, handled, webhook>>

\* the variables of the indexer, of the sentence loop, of the generator and of
\* the webhook handler
xvars == <<ivars, sel, gen, wvars>>

\* no EmbeddingGenerator yet
NoEG == [built |-> FALSE, model_name |-> <<>>, use_query_prefix |-> FALSE]

\* nothing indexed
IndexerIdle ==
    /\ eg = NoEG
    /\ chunks = <<>>
    /\ metas = <<>>
    /\ passages = <<>>
    /\ qsent = <<>>

\* no compress_article call is in its sentence loop
NoSel == [pc |-> "idle", text |-> <<>>, query |-> <<>>, max_chars |-> 0,
          header |-> <<>>, scored |-> <<>>, i |-> 0, current_len |-> 0,
          selected |-> <<>>, result |-> <<>>]

\* the parts of the system outside the retriever and the compressor at start
\* no CNTGenerator is constructed
NoGen == [pc |-> "none", text_field |-> "", max_context_chars |-> 0,
          articles |-> <<>>, query |-> <<>>, compressed |-> <<>>, context |-> <<>>]

\* no webhook request was handled
NoRequest == [kind |-> "none", has_from |-> FALSE, type |-> "", body |-> <<>>,
              body_is_str |-> TRUE, id |-> 0, rag |-> "not_run", send |-> "not_run",
              status |-> "", sends |-> 0, queried |-> FALSE, propagated |-> FALSE]

\* the module of the bot is loaded: the cache is empty
BotIdle == processed_messages = {} /\ handled = {} /\ webhook = NoRequest

ExtIdle == IndexerIdle /\ sel = NoSel /\ gen = NoGen /\ BotIdle

rvars == <<status, index_ntotal, meta_file, meta, art_to_idx, top_k, overfetch,
           min_score, use_bm25, reranker, call, vcands, rcands, cands, outcome, result>>

cvars == <<cstate, articles, cquery, max_total_chars, cout>>

---------------------------------------------------------------------------
(* Bounds of the model *)

MaxRows == 2      \* metadata lines / index rows on disk
MaxK == 2         \* constructor top_k ranges over 1..MaxK, per-call top_k over 0..MaxK
NumCalls == 2     \* search calls in flight on one retriever
MaxOver == 2      \* constructor overfetch ranges over 1..MaxOver

Calls == 1..NumCalls
Articles == {45, 118}                 \* article numbers in the corpus
Sims == {1000, 3500, 6000}            \* raw inner-product similarities (0.10, 0.35, 0.60)
MinScores == {3500}                   \* configured min_score (default 0.35)
CEProfiles == {"up", "down", "flat"}  \* shapes of the cross-encoder scores over the documents
BMProfiles == {"zero", "up"}          \* shapes of the BM25 scores over the corpus rows

DirectScore == 10000                  \* score=1.0 of a direct hit

---------------------------------------------------------------------------
(* Generic helpers *)

Max(a, b) == IF a >= b THEN a ELSE b

Min(a, b) == IF a <= b THEN a ELSE b

\* candidates[:k] for k >= 0
Take(s, k) == SubSeq(s, 1, Min(k, Len(s)))

RECURSIVE SortedSeq(_)
\* sorted(set_of_ints): ascending
SortedSeq(S) ==
    IF S = {} THEN <<>>
    ELSE LET m == CHOOSE x \in S : \A y \in S : x <= y
         IN  <<m>> \o SortedSeq(S \ {m})

---------------------------------------------------------------------------
(* Queries: sequences of whitespace-separated words *)

Queries ==
    { <<"multa">>,
      <<"ARTÍCULO", "45">>,
      <<"art.", "118">>,
      <<"articulo", "7">>,
      <<"artículo", "118", "art", "45">> }

\* str.lower() on the words used
Lower(w) == IF w = "ARTÍCULO" THEN "artículo" ELSE w

\* int(m) for a run of digits
IntOf == ("45" :> 45) @@ ("118" :> 118) @@ ("7" :> 7)

\* the three literal patterns: a keyword, whitespace, digits
Patterns == << {"artículo", "articulo"}, {"art.", "art"}, {"articulo"} >>

extract_article_numbers(query) ==
    LET nums == { IntOf[query[i + 1]] :
                    i \in { j \in 1..(Len(query) - 1) :
                              /\ \E p \in 1..Len(Patterns) : Lower(query[j]) \in Patterns[p]
                              /\ Lower(query[j + 1]) \in DOMAIN IntOf } }
    IN  SortedSeq(nums)

---------------------------------------------------------------------------
(* Construction *)

\* the non-blank lines of meta.jsonl, in file order
LoadMeta(lines) == SelectSeq(lines, LAMBDA l : l # <<>>)

\* a map that keeps the first row of an article number
BuildArtToIdxFirst(m) ==
    [a \in { m[i].articulo : i \in 1..Len(m) } |->
        CHOOSE i \in 0..(Len(m) - 1) :
            /\ m[i + 1].articulo = a
            /\ \A j \in 0..(Len(m) - 1) : m[j + 1].articulo = a => i <= j]

\* art_to_idx[a] = i for every row i in order: the last row of an article wins
BuildArtToIdx(m) ==
    [a \in { m[i].articulo : i \in 1..Len(m) } |->
        CHOOSE i \in 0..(Len(m) - 1) :
            /\ m[i + 1].articulo = a
            /\ \A j \in 0..(Len(m) - 1) : m[j + 1].articulo = a => j <= i]

\* a count check that lets an index with spare rows through
AlignedAtLeast(ntotal, m) == ntotal >= Len(m)

\* assert self.index.ntotal == len(self.meta)
Aligned(ntotal, m) == ntotal = Len(m)

pack(m, score, source) ==
    [score |-> score, source |-> source, doc_id |-> m.doc_id, articulo |-> m.articulo]

---------------------------------------------------------------------------
(* search: the stages *)

\* self.meta[idx] for a 0-based row
Row(idx) == meta[idx + 1]

RECURSIVE DirectLoop(_, _, _)
\* A) one direct candidate per mentioned article found in art_to_idx
DirectLoop(nums, i, acc) ==
    IF i > Len(nums) THEN acc
    ELSE IF nums[i] \in DOMAIN art_to_idx
         THEN DirectLoop(nums, i + 1,
                [cands |-> Append(acc.cands,
                                  pack(Row(art_to_idx[nums[i]]), DirectScore, "direct")),
                 seen  |-> acc.seen \cup {nums[i]}])
         ELSE DirectLoop(nums, i + 1, acc)

DirectStage(query) ==
    DirectLoop(extract_article_numbers(query), 1, [cands |-> <<>>, seen |-> {}])

\* a dedup check that never finds the article
NeverSeen(art, seen) == FALSE

\* if idx < 0 or idx >= len(self.meta): continue
OutOfRange(idx) == idx < 0 \/ idx >= Len(meta)

\* if art in seen_articles: continue
AlreadySeen(art, seen) == art \in seen

\* a floor that only rejects negative similarities
BelowZero(s) == s < 0

\* if s < self.min_score: continue
BelowFloor(s) == s < min_score

RECURSIVE VectorLoopBreak(_, _, _)
\* a loop that stops at the first row out of range instead of skipping it
VectorLoopBreak(hits, i, acc) ==
    IF i > Len(hits) THEN acc
    ELSE LET idx == hits[i].idx
             s   == hits[i].s
         IN  IF OutOfRange(idx) THEN acc
             ELSE IF AlreadySeen(Row(idx).articulo, acc.seen)
                  THEN VectorLoopBreak(hits, i + 1, acc)
             ELSE IF BelowFloor(s) THEN VectorLoopBreak(hits, i + 1, acc)
             ELSE VectorLoopBreak(hits, i + 1,
                    [cands |-> Append(acc.cands, pack(Row(idx), s, "semantic")),
                     seen  |-> acc.seen \cup {Row(idx).articulo}])

RECURSIVE VectorLoop(_, _, _)
\* B) the loop over the (row, score) pairs returned by index.search
VectorLoop(hits, i, acc) ==
    IF i > Len(hits) THEN acc
    ELSE LET idx == hits[i].idx
             s   == hits[i].s
         IN  IF OutOfRange(idx) THEN VectorLoop(hits, i + 1, acc)
             ELSE IF AlreadySeen(Row(idx).articulo, acc.seen) THEN VectorLoop(hits, i + 1, acc)
             ELSE IF BelowFloor(s) THEN VectorLoop(hits, i + 1, acc)
             ELSE VectorLoop(hits, i + 1,
                    [cands |-> Append(acc.cands, pack(Row(idx), s, "semantic")),
                     seen  |-> acc.seen \cup {Row(idx).articulo}])

\* candidates after stages A and B
VectorStage(query, hits) == VectorLoop(hits, 1, DirectStage(query)).cands

\* a cross-encoder stage that re-applies the evidence floor to the new scores
RerankAndFilter(cs, ce) ==
    IF reranker /\ Len(cs) > 0 /\ ce.ok
    THEN SelectSeq([i \in 1..Len(cs) |-> [cs[i] EXCEPT !.score = ce.scores[cs[i].doc_id]]],
                   LAMBDA c : c.score >= min_score)
    ELSE cs

\* a cross-encoder stage that leaves the direct hits at 1.0
RerankSemanticOnly(cs, ce) ==
    IF reranker /\ Len(cs) > 0 /\ ce.ok
    THEN [i \in 1..Len(cs) |->
            IF cs[i].source = "direct" THEN cs[i]
            ELSE [cs[i] EXCEPT !.score = ce.scores[cs[i].doc_id]]]
    ELSE cs

\* the cross-encoder stage: ce.ok is FALSE when predict raises, ce.scores is the
\* relevance of each document's text for the query
Rerank(cs, ce) ==
    IF reranker /\ Len(cs) > 0 /\ ce.ok
    THEN [i \in 1..Len(cs) |-> [cs[i] EXCEPT !.score = ce.scores[cs[i].doc_id]]]
    ELSE cs

\* a predict call with no handler around it: its failure ends the search call
PredictUncaught(cs, ce) == reranker /\ Len(cs) > 0 /\ ~ ce.ok

\* try: predict ... except Exception: pass -- a failure of predict never leaves
\* the search call
PredictEscapes(cs, ce) == FALSE

\* next((i for i, m in enumerate(self.meta) if m.get("doc_id") == doc_id), None),
\* as the set holding that row, or no row
FirstRowWithDocId(doc_id) ==
    LET rows == { i \in 0..(Len(meta) - 1) : Row(i).doc_id = doc_id }
    IN  IF rows = {} THEN {} ELSE { CHOOSE i \in rows : \A j \in rows : i <= j }

\* 0.7 * score + 0.3 * (bm / 10.0)
\* the two weights the other way round
BlendSwapped(score, bm) == (3 * score) \div 10 + (7 * bm) \div 100

Blend(score, bm) == (7 * score) \div 10 + (3 * bm) \div 100

\* C) the BM25 stage: bm is get_scores(q_tokens), one score per corpus row
BM25Stage(cs, bm) ==
    IF use_bm25 /\ Len(cs) > 1
    THEN [i \in 1..Len(cs) |->
            LET r == FirstRowWithDocId(cs[i].doc_id)
                b == IF r # {} /\ (CHOOSE x \in r : TRUE) < Len(bm)
                     THEN bm[(CHOOSE x \in r : TRUE) + 1] ELSE 0
            IN  [cs[i] EXCEPT !.score = Blend(cs[i].score, b)]]
    ELSE cs

RECURSIVE InsertDescBeforeTies(_, _)
\* insertion ahead of the elements with the same score
InsertDescBeforeTies(sorted, c) ==
    IF sorted = <<>> THEN <<c>>
    ELSE IF Head(sorted).score > c.score
         THEN <<Head(sorted)>> \o InsertDescBeforeTies(Tail(sorted), c)
         ELSE <<c>> \o sorted

RECURSIVE InsertDesc(_, _)
\* insertion after every element whose score is >= the new one: a stable
\* descending sort on score only
InsertDesc(sorted, c) ==
    IF sorted = <<>> THEN <<c>>
    ELSE IF Head(sorted).score >= c.score
         THEN <<Head(sorted)>> \o InsertDesc(Tail(sorted), c)
         ELSE <<c>> \o sorted

\* no sort at all
Unsorted(cs) == cs

RECURSIVE SortDesc(_)
\* candidates.sort(key=lambda x: x["score"], reverse=True)
SortDesc(cs) ==
    IF cs = <<>> THEN <<>>
    ELSE InsertDesc(SortDesc(SubSeq(cs, 1, Len(cs) - 1)), cs[Len(cs)])

\* k = top_k or self.top_k, the argument being <<>> (None) or <<k>>
EffectiveK(arg) == IF arg = <<>> \/ arg[1] = 0 THEN top_k ELSE arg[1]

\* a final cut that also drops the candidates whose final score is under min_score
AssembleAboveFloor(cs, arg) ==
    Take(SelectSeq(SortDesc(cs), LAMBDA c : c.score >= min_score), EffectiveK(arg))

\* D) final order and cut
Assemble(cs, arg) == Take(SortDesc(cs), EffectiveK(arg))

---------------------------------------------------------------------------
(* Inputs *)

\* a meta.jsonl file: per line an article number, or 0 for a blank line; the
\* indexer numbers the records 1, 2, ... in file order
MetaFileOf(f) ==
    [i \in 1..Len(f) |->
        IF f[i] = 0 THEN <<>>
        ELSE [doc_id   |-> Cardinality({ j \in 1..i : f[j] # 0 }),
              articulo |-> f[i]]]

MetaFiles ==
    UNION { { MetaFileOf(f) : f \in [1..n -> Articles \cup {0}] } : n \in 0..MaxRows }

RECURSIVE Orders(_)
\* the orderings of a set of rows
Orders(S) ==
    IF S = {} THEN {<<>>}
    ELSE UNION { { <<x>> \o o : o \in Orders(S \ {x}) } : x \in S }

\* the score of an unfilled slot: below every similarity
NegInf == -(DirectScore * DirectScore)

\* what index.search returns for k neighbours: the rows of the k best vectors by
\* descending score, then (row -1, lowest score) for every slot the index cannot fill
HitLists(k) ==
    LET n      == Min(k, Len(meta))
        rows   == UNION { Orders(R) : R \in { R \in SUBSET (0..(Len(meta) - 1)) :
                                                Cardinality(R) = n } }
        scores == { sc \in [1..n -> Sims] : \A i \in 1..(n - 1) : sc[i] >= sc[i + 1] }
    IN  { [i \in 1..k |-> IF i <= n THEN [idx |-> r[i], s |-> sc[i]]
                                    ELSE [idx |-> -1, s |-> NegInf]] :
            r \in rows, sc \in scores }

\* a cross-encoder logit for document d: -2.0, 0.5, 3.0, ... ("up"), the
\* reverse ("down") or 0.4 for every document ("flat")
CEScore(p, d) ==
    IF p = "up" THEN 25000 * (d - 1) - 20000
    ELSE IF p = "down" THEN 30000 - 25000 * (d - 1)
    ELSE 4000

\* a BM25 score for 0-based corpus row r: 0.0 everywhere ("zero") or 0.0, 5.0, 10.0, ...
BMScore(p, r) == IF p = "zero" THEN 0 ELSE 50000 * r

NoCE == [ok |-> FALSE, scores |-> <<>>]

\* outcomes of reranker.predict: it raises, or gives one score per document
CEOutcomes ==
    IF reranker
    THEN {NoCE} \cup { [ok |-> TRUE, scores |-> [d \in 1..Len(meta) |-> CEScore(p, d)]] :
                         p \in CEProfiles }
    ELSE {NoCE}

\* outcomes of bm25.get_scores: one score per corpus row
BMOutcomes ==
    IF use_bm25
    THEN { [i \in 1..Len(meta) |-> BMScore(p, i - 1)] : p \in BMProfiles }
    ELSE {<<>>}

TopKArgs == {<<>>} \cup { <<k>> : k \in 0..MaxK }

NoCall == [made |-> FALSE, query |-> <<>>, top_k |-> <<>>, hits |-> <<>>,
           ce |-> NoCE, bm |-> <<>>]

\* a search call that has not started
IdleFrame == [pc |-> "idle", query |-> <<>>, top_k |-> <<>>, hits |-> <<>>,
              ce |-> NoCE, bm |-> <<>>, ret |-> <<>>]

\* candidates = [] and seen_articles = set()
NoLocals == [cands |-> <<>>, seen |-> {}]

---------------------------------------------------------------------------
(* The retriever: construction and search *)

Init ==
    /\ status = "new"
    /\ index_ntotal \in 0..MaxRows
    /\ meta_file \in MetaFiles
    /\ meta = <<>>
    /\ art_to_idx = <<>>
    /\ top_k = 0
    /\ overfetch = 0
    /\ min_score = 0
    /\ use_bm25 = FALSE
    /\ reranker = FALSE
    /\ call = NoCall
    /\ vcands = <<>>
    /\ rcands = <<>>
    /\ cands = <<>>
    /\ outcome = "none"
    /\ result = <<>>
    /\ cstate = "idle"
    /\ articles = <<>>
    /\ cquery = <<>>
    /\ max_total_chars = 0
    /\ cout = <<>>
    /\ frames = [t \in Calls |-> IdleFrame]
    /\ locals = [t \in Calls |-> NoLocals]
    /\ ExtIdle

\* CNTRetriever.__init__: has_bm25 is the outcome of importing rank_bm25,
\* ce_loaded that of loading the cross-encoder model
CNTRetriever(tk, of, ms, bm, has_bm25, rerank_model, ce_loaded) ==
    /\ status = "new"
    /\ IF Aligned(index_ntotal, LoadMeta(meta_file))
       THEN /\ status' = "ready"
            /\ meta' = LoadMeta(meta_file)
            /\ art_to_idx' = BuildArtToIdx(LoadMeta(meta_file))
            /\ top_k' = tk
            /\ overfetch' = Max(tk, of)
            /\ min_score' = ms
            /\ use_bm25' = (bm /\ has_bm25)
            /\ reranker' = (rerank_model /\ ce_loaded)
       ELSE /\ status' = "failed"
            /\ UNCHANGED <<meta, art_to_idx, top_k, overfetch, min_score,
                           use_bm25, reranker>>
    /\ UNCHANGED <<index_ntotal, meta_file, call, vcands, rcands, cands, outcome, result>>
    /\ UNCHANGED cvars
    /\ UNCHANGED tvars
    /\ UNCHANGED xvars

\* CNTRetriever.search(query, top_k)
search(query, arg, hits, ce, bm) ==
    /\ status = "ready"
    /\ ~call.made
    /\ call' = [made |-> TRUE, query |-> query, top_k |-> arg, hits |-> hits,
                ce |-> ce, bm |-> bm]
    /\ vcands' = VectorStage(query, hits)
    /\ rcands' = Rerank(vcands', ce)
    /\ cands' = BM25Stage(rcands', bm)
    /\ outcome' = IF PredictEscapes(vcands', ce) THEN "raised" ELSE "returned"
    /\ result' = IF outcome' = "raised" THEN <<>> ELSE Assemble(cands', arg)
    /\ UNCHANGED <<status, index_ntotal, meta_file, meta, art_to_idx, top_k,
                   overfetch, min_score, use_bm25, reranker>>
    /\ UNCHANGED cvars
    /\ UNCHANGED tvars
    /\ UNCHANGED xvars

\* the caller drops the returned list; the retriever keeps no trace of the call
Discard ==
    /\ call.made
    /\ call' = NoCall
    /\ vcands' = <<>>
    /\ rcands' = <<>>
    /\ cands' = <<>>
    /\ outcome' = "none"
    /\ result' = <<>>
    /\ UNCHANGED <<status, index_ntotal, meta_file, meta, art_to_idx, top_k,
                   overfetch, min_score, use_bm25, reranker>>
    /\ UNCHANGED cvars
    /\ UNCHANGED tvars
    /\ UNCHANGED xvars

Next ==
    \/ /\ status = "new"
       /\ \E tk \in 1..MaxK, of \in 1..MaxOver, ms \in MinScores,
             bm \in BOOLEAN, has_bm25 \in BOOLEAN,
             rerank_model \in BOOLEAN, ce_loaded \in BOOLEAN :
               CNTRetriever(tk, of, ms, bm, has_bm25, rerank_model, ce_loaded)
    \/ /\ status = "ready" /\ ~call.made
       /\ \E query \in Queries, arg \in TopKArgs, hits \in HitLists(overfetch),
             ce \in CEOutcomes, bm \in BMOutcomes :
               search(query, arg, hits, ce, bm)
    \/ Discard

Spec == Init /\ [][Next]_vars

---------------------------------------------------------------------------
(* The retriever over a vector backend that may return any row number *)

\* the row numbers a backend may put in a slot: the -1 of an unfilled slot, the
\* rows of the corpus, and a row past its end
BackendRows == (-1)..Len(meta)

\* k (row, score) pairs in any order
BackendHitLists(k) == [1..k -> [idx : BackendRows, s : Sims]]

NextBackend ==
    \/ /\ status = "new"
       /\ \E tk \in 1..MaxK, of \in 1..MaxOver, ms \in MinScores :
               CNTRetriever(tk, of, ms, FALSE, FALSE, FALSE, FALSE)
    \/ /\ status = "ready" /\ ~call.made
       /\ \E query \in Queries, hits \in BackendHitLists(overfetch) :
               search(query, <<>>, hits, NoCE, <<>>)
    \/ Discard

SpecBackend == Init /\ [][NextBackend]_vars

---------------------------------------------------------------------------
(* Concurrent search calls on one retriever, one step per stage of search *)

\* one slot of local variables for all the calls, as attributes of self would be
LocalsOnSelf(t) == 1

\* candidates and seen_articles are local variables of search: each call has its own
LocalsOf(t) == t

\* the corpus of the concurrent calls: articles 45 and 118
ConcMetaFile == MetaFileOf(<<45, 118>>)

ConcQueries == { <<"multa">>, <<"art.", "118">> }

\* hit lists with every row at the highest similarity
ConcHitLists(k) == { h \in HitLists(k) : \A i \in 1..Len(h) : h[i].idx >= 0 => h[i].s = 6000 }

\* predict raises, or gives the "up" logits
ConcCEOutcomes == { ce \in CEOutcomes : ce.ok => ce.scores[1] < 0 }

\* get_scores gives 0.0, 5.0, ...
ConcBMOutcomes == { bm \in BMOutcomes : bm # <<>> => bm[Len(bm)] > 0 }

InitConcurrent ==
    /\ status = "new"
    /\ meta_file = ConcMetaFile
    /\ index_ntotal = Len(meta_file)
    /\ meta = <<>>
    /\ art_to_idx = <<>>
    /\ top_k = 0
    /\ overfetch = 0
    /\ min_score = 0
    /\ use_bm25 = FALSE
    /\ reranker = FALSE
    /\ call = NoCall
    /\ vcands = <<>>
    /\ rcands = <<>>
    /\ cands = <<>>
    /\ outcome = "none"
    /\ result = <<>>
    /\ cstate = "idle"
    /\ articles = <<>>
    /\ cquery = <<>>
    /\ max_total_chars = 0
    /\ cout = <<>>
    /\ frames = [t \in Calls |-> IdleFrame]
    /\ locals = [t \in Calls |-> NoLocals]
    /\ ExtIdle

\* the variables a step of a concurrent call leaves alone
ConcFrame ==
    /\ UNCHANGED <<status, index_ntotal, meta_file, meta, art_to_idx, top_k,
                   overfetch, min_score, use_bm25, reranker>>
    /\ UNCHANGED <<call, vcands, rcands, cands, outcome, result>>
    /\ UNCHANGED cvars
    /\ UNCHANGED xvars

\* call t enters search(query, top_k): candidates = [], seen_articles = set()
Begin(t, query, arg, hits, ce, bm) ==
    /\ status = "ready"
    /\ frames[t].pc = "idle"
    /\ frames' = [frames EXCEPT ![t] = [pc |-> "A", query |-> query, top_k |-> arg,
                                        hits |-> hits, ce |-> ce, bm |-> bm,
                                        ret |-> <<>>]]
    /\ locals' = [locals EXCEPT ![LocalsOf(t)] = NoLocals]
    /\ ConcFrame

\* A) the direct stage of call t
StepA(t) ==
    /\ frames[t].pc = "A"
    /\ locals' = [locals EXCEPT ![LocalsOf(t)] =
                     DirectLoop(extract_article_numbers(frames[t].query), 1,
                                locals[LocalsOf(t)])]
    /\ frames' = [frames EXCEPT ![t].pc = "B"]
    /\ ConcFrame

\* B) the vector stage of call t
StepB(t) ==
    /\ frames[t].pc = "B"
    /\ locals' = [locals EXCEPT ![LocalsOf(t)] =
                     VectorLoop(frames[t].hits, 1, locals[LocalsOf(t)])]
    /\ frames' = [frames EXCEPT ![t].pc = "CE"]
    /\ ConcFrame

\* the cross-encoder stage of call t
StepCE(t) ==
    /\ frames[t].pc = "CE"
    /\ locals' = [locals EXCEPT ![LocalsOf(t)].cands =
                     Rerank(locals[LocalsOf(t)].cands, frames[t].ce)]
    /\ frames' = [frames EXCEPT ![t].pc = "C"]
    /\ ConcFrame

\* C) the BM25 stage of call t
StepC(t) ==
    /\ frames[t].pc = "C"
    /\ locals' = [locals EXCEPT ![LocalsOf(t)].cands =
                     BM25Stage(locals[LocalsOf(t)].cands, frames[t].bm)]
    /\ frames' = [frames EXCEPT ![t].pc = "D"]
    /\ ConcFrame

\* D) call t sorts, cuts and returns
StepD(t) ==
    /\ frames[t].pc = "D"
    /\ frames' = [frames EXCEPT ![t].pc = "done",
                                ![t].ret = Assemble(locals[LocalsOf(t)].cands,
                                                    frames[t].top_k)]
    /\ UNCHANGED locals
    /\ ConcFrame

\* the caller of call t takes the returned list
Collect(t) ==
    /\ frames[t].pc = "done"
    /\ frames' = [frames EXCEPT ![t] = IdleFrame]
    /\ UNCHANGED locals
    /\ ConcFrame

NextConcurrent ==
    \/ /\ status = "new"
       /\ \E ms \in MinScores, has_bm25 \in BOOLEAN, ce_loaded \in BOOLEAN :
               CNTRetriever(Len(meta_file), Len(meta_file), ms, TRUE, has_bm25,
                            TRUE, ce_loaded)
    \/ \E t \in Calls :
          /\ status = "ready" /\ frames[t].pc = "idle"
          /\ \E query \in ConcQueries, hits \in ConcHitLists(overfetch),
                ce \in ConcCEOutcomes, bm \in ConcBMOutcomes :
                  Begin(t, query, <<>>, hits, ce, bm)
    \/ \E t \in Calls : StepA(t)
    \/ \E t \in Calls : StepB(t)
    \/ \E t \in Calls : StepCE(t)
    \/ \E t \in Calls : StepC(t)
    \/ \E t \in Calls : StepD(t)
    \/ \E t \in Calls : Collect(t)

SpecConcurrent == InitConcurrent /\ [][NextConcurrent]_vars

---------------------------------------------------------------------------
(* The retriever with the BM25 index computed from the texts of the corpus *)

MaxLexRows == 3   \* records of a corpus whose texts are modelled

\* self.text_fields_priority
text_fields_priority == <<"texto", "texto_completo", "content", "body", "snippet">>

\* _get_text(m): the first field of the priority list that is present and not empty
get_text(m) ==
    LET present == { i \in 1..Len(text_fields_priority) :
                       /\ text_fields_priority[i] \in DOMAIN m
                       /\ m[text_fields_priority[i]] # <<>> }
    IN  IF present = {} THEN <<>>
        ELSE m[text_fields_priority[CHOOSE i \in present : \A j \in present : i <= j]]

\* re.findall(r"\w+", word.lower()) on the words used: one token per word, the
\* full stop of "art." dropped
Token(w) == IF w = "art." THEN "art" ELSE Lower(w)

\* _tokenize(text), a text being a sequence of words
tokenize(text) == [i \in 1..Len(text) |-> Token(text[i])]

\* tokens_corpus = [self._tokenize(self._get_text(m)) for m in self.meta]
tokens_corpus(rows) == [i \in 1..Len(rows) |-> tokenize(get_text(rows[i]))]

\* occurrences of word w in a tokenized document
TermFreq(doc, w) == Cardinality({ i \in 1..Len(doc) : doc[i] = w })

RECURSIVE SumFn(_)
\* the sum of the values of a function with a finite domain
SumFn(f) ==
    IF DOMAIN f = {} THEN 0
    ELSE LET x == CHOOSE y \in DOMAIN f : TRUE
         IN  f[x] + SumFn([y \in DOMAIN f \ {x} |-> f[y]])

\* 10000 * ln(n + 0.5) for n = 0, 1, 2, ..., rounded
LnHalf == <<-6931, 4055, 9163, 12528, 15041, 17047, 18718>>

\* BM25Okapi(corpus) of rank_bm25 with its defaults k1 = 1.5, b = 0.75,
\* epsilon = 0.25: corpus size, document lengths and, per word of the corpus,
\* idf = ln(N - n + 0.5) - ln(n + 0.5), n being the documents that hold the word;
\* a negative idf is replaced by epsilon * average idf. Values are in 1/10000.
BM25Okapi(corpus) ==
    LET N     == Len(corpus)
        vocab == UNION { { corpus[d][i] : i \in 1..Len(corpus[d]) } : d \in 1..N }
        nd    == [w \in vocab |->
                    Cardinality({ d \in 1..N : TermFreq(corpus[d], w) > 0 })]
        raw   == [w \in vocab |-> LnHalf[N - nd[w] + 1] - LnHalf[nd[w] + 1]]
        eps   == IF vocab = {} THEN 0 ELSE (SumFn(raw) \div Cardinality(vocab)) \div 4
    IN  [corpus_size |-> N,
         doc_len     |-> [d \in 1..N |-> Len(corpus[d])],
         total_len   |-> SumFn([d \in 1..N |-> Len(corpus[d])]),
         docs        |-> corpus,
         idf         |-> [w \in vocab |-> IF raw[w] < 0 THEN eps ELSE raw[w]]]

\* one term of the score of document d:
\* idf * tf * (k1 + 1) / (tf + k1 * (1 - b + b * doc_len / avgdl)), avgdl being
\* total_len / corpus_size, with numerator and denominator multiplied by
\* 8 * total_len
TermScore(bm25, d, q) ==
    LET tf == TermFreq(bm25.docs[d], q)
        T  == bm25.total_len
    IN  IF q \notin DOMAIN bm25.idf \/ tf = 0 THEN 0
        ELSE (bm25.idf[q] * 20 * tf * T)
                \div (8 * tf * T + 3 * T + 9 * bm25.doc_len[d] * bm25.corpus_size)

\* bm25.get_scores(q_tokens): one score per document of the indexed corpus
get_scores(bm25, q_tokens) ==
    [d \in 1..bm25.corpus_size |->
        SumFn([i \in 1..Len(q_tokens) |-> TermScore(bm25, d, q_tokens[i])])]

\* texts of corpus records, as word sequences
LexTexts ==
    { <<"multa", "via">>,
      <<"via", "via", "via">>,
      <<"ARTÍCULO", "45", "multa", "multa">> }

\* meta.jsonl files of 1..MaxLexRows records with a text each, articles 45, 46, ...
LexMetaFiles ==
    UNION { { [i \in 1..n |-> [doc_id |-> i, articulo |-> 44 + i, texto |-> t[i]]] :
                t \in [1..n -> LexTexts] } : n \in 1..MaxLexRows }

LexQueries == { <<"multa">>, <<"ARTÍCULO", "45">> }

InitLexical ==
    /\ status = "new"
    /\ meta_file \in LexMetaFiles
    /\ index_ntotal = Len(meta_file)
    /\ meta = <<>>
    /\ art_to_idx = <<>>
    /\ top_k = 0
    /\ overfetch = 0
    /\ min_score = 0
    /\ use_bm25 = FALSE
    /\ reranker = FALSE
    /\ call = NoCall
    /\ vcands = <<>>
    /\ rcands = <<>>
    /\ cands = <<>>
    /\ outcome = "none"
    /\ result = <<>>
    /\ cstate = "idle"
    /\ articles = <<>>
    /\ cquery = <<>>
    /\ max_total_chars = 0
    /\ cout = <<>>
    /\ frames = [t \in Calls |-> IdleFrame]
    /\ locals = [t \in Calls |-> NoLocals]
    /\ ExtIdle

\* the scores the index built at construction over the whole of self.meta gives
\* to a query
IndexScores(query) ==
    IF use_bm25 THEN get_scores(BM25Okapi(tokens_corpus(meta)), tokenize(query))
    ELSE <<>>

NextLexical ==
    \/ /\ status = "new"
       /\ \E tk \in 1..MaxK, of \in 1..MaxOver, ms \in MinScores, has_bm25 \in BOOLEAN :
               CNTRetriever(tk, of, ms, TRUE, has_bm25, FALSE, FALSE)
    \/ /\ status = "ready" /\ ~call.made
       /\ \E query \in LexQueries, hits \in HitLists(overfetch) :
               search(query, <<>>, hits, NoCE, IndexScores(query))
    \/ Discard

SpecLexical == InitLexical /\ [][NextLexical]_vars

---------------------------------------------------------------------------
(* The context compressor: texts are sequences of characters *)

IsSpace(c) == c \in {" ", "\n"}

RECURSIVE LStrip(_)
LStrip(t) == IF t # <<>> /\ IsSpace(Head(t)) THEN LStrip(Tail(t)) ELSE t

RECURSIVE RStrip(_)
RStrip(t) ==
    IF t # <<>> /\ IsSpace(t[Len(t)]) THEN RStrip(SubSeq(t, 1, Len(t) - 1)) ELSE t

\* str.strip()
Strip(t) == RStrip(LStrip(t))

\* str.upper() and str.lower() on the letters the texts use
UpperOf == ("a" :> "A") @@ ("r" :> "R") @@ ("t" :> "T") @@ ("í" :> "Í")
           @@ ("c" :> "C") @@ ("u" :> "U") @@ ("l" :> "L") @@ ("o" :> "O")
           @@ ("x" :> "X")

Upper(t) == [i \in 1..Len(t) |-> IF t[i] \in DOMAIN UpperOf THEN UpperOf[t[i]] ELSE t[i]]

LowerText(t) ==
    [i \in 1..Len(t) |->
        IF \E c \in DOMAIN UpperOf : UpperOf[c] = t[i]
        THEN CHOOSE c \in DOMAIN UpperOf : UpperOf[c] = t[i]
        ELSE t[i]]

\* pat in t
Contains(t, pat) ==
    \E i \in 1..(Len(t) - Len(pat) + 1) : SubSeq(t, i, i + Len(pat) - 1) = pat

RECURSIVE Count(_, _)
\* t.count(pat): occurrences that do not overlap, left to right
Count(t, pat) ==
    IF Len(t) < Len(pat) THEN 0
    ELSE IF SubSeq(t, 1, Len(pat)) = pat
         THEN 1 + Count(SubSeq(t, Len(pat) + 1, Len(t)), pat)
         ELSE Count(Tail(t), pat)

RECURSIVE Split(_, _, _)
\* t.split(sep) for a one-character separator; cur is the piece being read
Split(t, sep, cur) ==
    IF t = <<>> THEN <<cur>>
    ELSE IF Head(t) = sep THEN <<cur>> \o Split(Tail(t), sep, <<>>)
         ELSE Split(Tail(t), sep, Append(cur, Head(t)))

RECURSIVE Join(_, _)
\* sep.join(parts)
Join(parts, sep) ==
    IF parts = <<>> THEN <<>>
    ELSE IF Len(parts) = 1 THEN parts[1]
         ELSE parts[1] \o sep \o Join(Tail(parts), sep)

RECURSIVE SentSplit(_, _, _)
\* SENT_SPLIT.split(t): cut at every run of whitespace that follows '.', '?' or '!';
\* i is the position read, cur the piece being read
SentSplit(t, i, cur) ==
    IF i > Len(t) THEN <<cur>>
    ELSE IF i > 1 /\ t[i - 1] \in {".", "?", "!"} /\ IsSpace(t[i])
         THEN <<cur>> \o SentSplit(LStrip(SubSeq(t, i, Len(t))), 1, <<>>)
         ELSE SentSplit(t, i + 1, Append(cur, t[i]))

IsWordChar(c) == ~ IsSpace(c) /\ c \notin {".", "?", "!", ",", ":"}

RECURSIVE Words(_, _)
\* the maximal runs of word characters of t; cur is the run being read
Words(t, cur) ==
    IF t = <<>> THEN (IF cur = <<>> THEN <<>> ELSE <<cur>>)
    ELSE IF IsWordChar(Head(t)) THEN Words(Tail(t), Append(cur, Head(t)))
         ELSE (IF cur = <<>> THEN <<>> ELSE <<cur>>) \o Words(Tail(t), <<>>)

\* [w.lower() for w in WORD_PATTERN.findall(query)]: words of 3 or more characters
QueryTerms(query) ==
    LET ws == SelectSeq(Words(query, <<>>), LAMBDA w : Len(w) >= 3)
    IN  [i \in 1..Len(ws) |-> LowerText(ws[i])]

RECURSIVE SumCounts(_, _, _)
\* sum(s.count(t) for t in query_terms if t)
SumCounts(s, terms, i) ==
    IF i > Len(terms) THEN 0
    ELSE (IF terms[i] # <<>> THEN Count(s, terms[i]) ELSE 0) + SumCounts(s, terms, i + 1)

LegalKeywords == { <<"m", "u", "l", "t", "a">>, <<"s", "a", "n", "c", "i", "ó", "n">>, <<"i", "n", "f", "r", "a", "c", "c", "i", "ó", "n">>, <<"p", "r", "o", "h", "i", "b">>, <<"o", "b", "l", "i", "g">> }

ModalKeywords == { <<"d", "e", "b", "e">>, <<"d", "e", "b", "e", "r", "á">>, <<"p", "o", "d", "r", "á">>, <<"s", "e", "r", "á">> }

ShortSentence == 50        \* L < 50
LongSentence == 300        \* L > 300

\* _score_sentence, in hundredths: (hits + legal_bonus) * length_penalty
score_sentence(sent, terms) ==
    LET s       == LowerText(sent)
        hits    == SumCounts(s, terms, 1)
        legal   == IF \E kw \in LegalKeywords : Contains(s, kw) THEN 5 ELSE 0
        modal   == IF \E kw \in ModalKeywords : Contains(s, kw) THEN 3 ELSE 0
        penalty == IF Len(sent) < ShortSentence THEN 5
                   ELSE IF Len(sent) > LongSentence THEN 7 ELSE 10
    IN  (10 * hits + legal + modal) * penalty

\* 'ARTÍCULO' in line.upper() or 'ART.' in line.upper()
IsHeaderLine(line) ==
    \/ Contains(Upper(line), <<"A", "R", "T", "Í", "C", "U", "L", "O">>)
    \/ Contains(Upper(line), <<"A", "R", "T", ".">>)

\* the truncation marker
Ellipsis == <<".", ".", ".">>

\* a cut one character late
TruncateLate(t, max_chars) == SubSeq(t, 1, Min(max_chars + 1, Len(t))) \o Ellipsis

\* result[:max_chars] + "..." for max_chars >= 0
Truncate(t, max_chars) == SubSeq(t, 1, Min(max_chars, Len(t))) \o Ellipsis

RECURSIVE SelectLoop(_, _, _, _, _)
\* the greedy loop over the sentences in score order: a sentence is taken when it
\* still fits, and the loop stops once 90% of max_chars is reached
SelectLoop(scored, i, current_len, selected, max_chars) ==
    IF i > Len(scored) THEN selected
    ELSE LET fits == current_len + Len(scored[i].sent) + 2 <= max_chars
             len1 == IF fits THEN current_len + Len(scored[i].sent) + 2 ELSE current_len
             sel1 == IF fits THEN Append(selected, scored[i].sent) ELSE selected
         IN  IF 10 * len1 >= 9 * max_chars THEN sel1
             ELSE SelectLoop(scored, i + 1, len1, sel1, max_chars)

\* compress_article(article_text, query, max_chars)
compress_article(text, query, max_chars) ==
    IF Len(text) <= max_chars THEN text
    ELSE
    LET lines      == Split(text, "\n", <<>>)
        hdr_lines  == { i \in 1..Len(lines) : IsHeaderLine(lines[i]) }
        hdr_at     == IF hdr_lines = {} THEN 0
                      ELSE CHOOSE i \in hdr_lines : \A j \in hdr_lines : i <= j
        header     == IF hdr_at = 0 THEN <<>> ELSE Strip(lines[hdr_at])
        body_text  == Join(SubSeq(lines, hdr_at + 1, Len(lines)), <<"\n">>)
        pieces     == SentSplit(body_text, 1, <<>>)
        stripped   == [i \in 1..Len(pieces) |-> Strip(pieces[i])]
        sentences  == SelectSeq(stripped, LAMBDA x : x # <<>>)
        q_terms    == QueryTerms(query)
        scored     == SortDesc([i \in 1..Len(sentences) |->
                                  [sent  |-> sentences[i],
                                   score |-> score_sentence(sentences[i], q_terms)]])
        current0   == IF header # <<>> THEN Len(header) + 1 ELSE 0
        selected   == SelectLoop(scored, 1, current0, <<>>, max_chars)
        parts      == (IF header # <<>> THEN <<header>> ELSE <<>>)
                      \o (IF selected # <<>> THEN <<Join(selected, <<" ">>)>> ELSE <<>>)
        joined     == Join(parts, <<"\n">>)
    IN  IF sentences = <<>> THEN SubSeq(text, 1, Min(max_chars, Len(text)))
        ELSE IF Len(joined) > max_chars THEN Truncate(joined, max_chars)
        ELSE joined

\* the text fields in priority order
TextFieldPriority == <<"texto", "texto_completo", "content", "body", "snippet">>

\* article.get(k) or ...: the first field that is present and not empty, stripped
resolve_article_text(art) ==
    LET present == { i \in 1..Len(TextFieldPriority) :
                       /\ TextFieldPriority[i] \in DOMAIN art
                       /\ art[TextFieldPriority[i]] # <<>> }
    IN  IF present = {} THEN <<>>
        ELSE Strip(art[TextFieldPriority[CHOOSE i \in present : \A j \in present : i <= j]])

RECURSIVE TotalChars(_)
\* sum(len(_resolve_article_text(art)) for art in articles)
TotalChars(arts) ==
    IF arts = <<>> THEN 0
    ELSE Len(resolve_article_text(Head(arts))) + TotalChars(Tail(arts))

\* a per-article limit that forgets the division
WholeBudget(arts, budget) == budget

\* max_total_chars // len(articles) if articles else max_total_chars
AvgLimit(arts, budget) == IF arts # <<>> THEN budget \div Len(arts) ELSE budget

\* art.copy() with the two fields set
Compressed(art, content) ==
    [k \in DOMAIN art \cup {"content", "compressed"} |->
        IF k = "content" THEN content
        ELSE IF k = "compressed" THEN TRUE
        ELSE art[k]]

\* a share test that sends an article of exactly the share to compress_article
WithinShareStrict(content, avg_limit) == Len(content) < avg_limit

\* if len(content) <= avg_limit: keep the article
WithinShare(content, avg_limit) == Len(content) <= avg_limit

\* a pass-through test that excludes an exact fit
FitsStrictly(total, budget) == total < budget

\* if total_chars <= max_total_chars: return articles
FitsBudget(total, budget) == total <= budget

\* compress_context(articles, query, max_total_chars)
compress_context(arts, query, budget) ==
    IF FitsBudget(TotalChars(arts), budget) THEN arts
    ELSE [i \in 1..Len(arts) |->
            LET content == resolve_article_text(arts[i])
            IN  IF WithinShare(content, AvgLimit(arts, budget)) THEN arts[i]
                ELSE Compressed(arts[i],
                                compress_article(content, query, AvgLimit(arts, budget)))]

---------------------------------------------------------------------------
(* compress_context: inputs and the call *)

MaxArticles == 2     \* articles per call
MaxBudget == 30      \* max_total_chars ranges over 0..MaxBudget

\* a short text: 'xx yy'
TextShort == <<"x", "x", " ", "y", "y">>

\* a header line and three sentences: 'ART. 1\nxxx xxx. debe yy. zz!'
TextHeaderBody == <<"A", "R", "T", ".", " ", "1", "\n", "x", "x", "x", " ", "x", "x", "x", ".", " ", "d", "e", "b", "e", " ", "y", "y", ".", " ", "z", "z", "!">>

\* no header, no sentence boundary: 'xxx xxx xxx xxx'
TextOneSentence == <<"x", "x", "x", " ", "x", "x", "x", " ", "x", "x", "x", " ", "x", "x", "x">>

\* a header line and no body: 'Art. 118 xxx xxx'
TextHeaderOnly == <<"A", "r", "t", ".", " ", "1", "1", "8", " ", "x", "x", "x", " ", "x", "x", "x">>

\* a long header line and two short sentences: 'ARTÍCULO 45 xxxxxx\nxx. yy.'
TextLongHeader == <<"A", "R", "T", "Í", "C", "U", "L", "O", " ", "4", "5", " ", "x", "x", "x", "x", "x", "x", "\n", "x", "x", ".", " ", "y", "y", ".">>

\* no header, three sentences: 'yyy. xxx yyy xxx. multa debe.'
TextSentences == <<"y", "y", "y", ".", " ", "x", "x", "x", " ", "y", "y", "y", " ", "x", "x", "x", ".", " ", "m", "u", "l", "t", "a", " ", "d", "e", "b", "e", ".">>

\* surrounding whitespace, the header on a later line: ' \nxx. Art. 2\nyyy? xx\n'
TextPadded == <<" ", "\n", "x", "x", ".", " ", "A", "r", "t", ".", " ", "2", "\n", "y", "y", "y", "?", " ", "x", "x", "\n">>

\* the empty text: ''
TextEmpty == <<>>

CTexts == {TextShort, TextHeaderBody, TextOneSentence, TextHeaderOnly, TextLongHeader, TextSentences, TextPadded, TextEmpty}

\* result records as search returns them (text under "texto"), and one record of
\* an earlier pipeline version (text under "content")
CArticles == { [texto |-> t] : t \in CTexts } \cup { [content |-> TextHeaderBody] }

CArticleLists == UNION { [1..n -> CArticles] : n \in 0..MaxArticles }

\* 'XXX yy?' and the empty query
CQueries == { <<"X", "X", "X", " ", "y", "y", "?">>, <<>> }

InitCompress ==
    /\ status = "new"
    /\ index_ntotal = 0
    /\ meta_file = <<>>
    /\ meta = <<>>
    /\ art_to_idx = <<>>
    /\ top_k = 0
    /\ overfetch = 0
    /\ min_score = 0
    /\ use_bm25 = FALSE
    /\ reranker = FALSE
    /\ call = NoCall
    /\ vcands = <<>>
    /\ rcands = <<>>
    /\ cands = <<>>
    /\ outcome = "none"
    /\ result = <<>>
    /\ cstate = "idle"
    /\ articles = <<>>
    /\ cquery = <<>>
    /\ max_total_chars = 0
    /\ cout = <<>>
    /\ frames = [t \in Calls |-> IdleFrame]
    /\ locals = [t \in Calls |-> NoLocals]
    /\ ExtIdle

\* a call of compress_context(arts, query, budget) that returns
CompressCall(arts, query, budget) ==
    /\ cstate = "idle"
    /\ cstate' = "returned"
    /\ articles' = arts
    /\ cquery' = query
    /\ max_total_chars' = budget
    /\ cout' = compress_context(arts, query, budget)
    /\ UNCHANGED rvars
    /\ UNCHANGED tvars
    /\ UNCHANGED xvars

\* the caller is done with the returned list
CompressDone ==
    /\ cstate = "returned"
    /\ cstate' = "idle"
    /\ articles' = <<>>
    /\ cquery' = <<>>
    /\ max_total_chars' = 0
    /\ cout' = <<>>
    /\ UNCHANGED rvars
    /\ UNCHANGED tvars
    /\ UNCHANGED xvars

NextCompress ==
    \/ /\ cstate = "idle"
       /\ \E arts \in CArticleLists, query \in CQueries, budget \in 0..MaxBudget :
             CompressCall(arts, query, budget)
    \/ CompressDone

SpecCompress == InitCompress /\ [][NextCompress]_vars

---------------------------------------------------------------------------
(* compress_article: the sentence loop, one step per iteration *)

\* the first line that holds the article marker, stripped, or '' without one
HeaderOf(text) ==
    LET lines     == Split(text, "\n", <<>>)
        hdr_lines == { i \in 1..Len(lines) : IsHeaderLine(lines[i]) }
    IN  IF hdr_lines = {} THEN <<>>
        ELSE Strip(lines[CHOOSE i \in hdr_lines : \A j \in hdr_lines : i <= j])

\* the sentences after the header line, stripped, the empty ones dropped
SentencesOf(text) ==
    LET lines     == Split(text, "\n", <<>>)
        hdr_lines == { i \in 1..Len(lines) : IsHeaderLine(lines[i]) }
        hdr_at    == IF hdr_lines = {} THEN 0
                     ELSE CHOOSE i \in hdr_lines : \A j \in hdr_lines : i <= j
        body_text == Join(SubSeq(lines, hdr_at + 1, Len(lines)), <<"\n">>)
        pieces    == SentSplit(body_text, 1, <<>>)
        stripped  == [i \in 1..Len(pieces) |-> Strip(pieces[i])]
    IN  SelectSeq(stripped, LAMBDA x : x # <<>>)

\* scored.sort(key=lambda x: x[1], reverse=True)
ScoredOf(text, query) ==
    LET sentences == SentencesOf(text)
    IN  SortDesc([i \in 1..Len(sentences) |->
                    [sent  |-> sentences[i],
                     score |-> score_sentence(sentences[i], QueryTerms(query))]])

\* a 26-character header, blank lines and a one-character sentence:
\* 'ART. 1 xxxxxxxxxxxxxxxxxxx\n\n\n\nz'
TextHeaderNearBudget == <<"A", "R", "T", ".", " ", "1", " ", "x", "x", "x", "x", "x", "x", "x", "x", "x", "x", "x", "x", "x", "x", "x", "x", "x", "x", "x", "\n", "\n", "\n", "\n", "z">>

SelTexts == {TextHeaderBody, TextLongHeader, TextSentences, TextPadded, TextHeaderNearBudget}

\* the variables the sentence loop leaves alone
SelFrame ==
    /\ UNCHANGED rvars
    /\ UNCHANGED cvars
    /\ UNCHANGED tvars
    /\ UNCHANGED ivars
    /\ UNCHANGED gen
    /\ UNCHANGED wvars

\* compress_article(text, query, max_chars) reaches its loop: the text is over
\* max_chars and has sentences; current_len starts at len(header) + 1, or 0
SelectStart(text, query, max_chars) ==
    /\ sel.pc = "idle"
    /\ Len(text) > max_chars
    /\ SentencesOf(text) # <<>>
    /\ sel' = [pc |-> "loop", text |-> text, query |-> query, max_chars |-> max_chars,
               header |-> HeaderOf(text), scored |-> ScoredOf(text, query), i |-> 1,
               current_len |-> IF HeaderOf(text) # <<>> THEN Len(HeaderOf(text)) + 1
                               ELSE 0,
               selected |-> <<>>, result |-> <<>>]
    /\ SelFrame

\* one iteration of for sent, score in scored: take the sentence if it fits, then
\* break at 90% of max_chars
SelectStep ==
    /\ sel.pc = "loop"
    /\ sel.i <= Len(sel.scored)
    /\ LET s    == sel.scored[sel.i]
           fits == sel.current_len + Len(s.sent) + 2 <= sel.max_chars
           len1 == IF fits THEN sel.current_len + Len(s.sent) + 2 ELSE sel.current_len
           sel1 == IF fits THEN Append(sel.selected, s) ELSE sel.selected
       IN  sel' = [sel EXCEPT !.current_len = len1,
                              !.selected = sel1,
                              !.i = IF 10 * len1 >= 9 * sel.max_chars
                                    THEN Len(sel.scored) + 1 ELSE sel.i + 1]
    /\ SelFrame

\* after the loop: join the header and the selected sentences, cut if too long
SelectReturn ==
    /\ sel.pc = "loop"
    /\ sel.i > Len(sel.scored)
    /\ LET sents  == [k \in 1..Len(sel.selected) |-> sel.selected[k].sent]
           parts  == (IF sel.header # <<>> THEN <<sel.header>> ELSE <<>>)
                     \o (IF sents # <<>> THEN <<Join(sents, <<" ">>)>> ELSE <<>>)
           joined == Join(parts, <<"\n">>)
       IN  sel' = [sel EXCEPT !.pc = "done",
                              !.result = IF Len(joined) > sel.max_chars
                                         THEN Truncate(joined, sel.max_chars)
                                         ELSE joined]
    /\ SelFrame

\* the caller takes the compressed text
SelectDone ==
    /\ sel.pc = "done"
    /\ sel' = NoSel
    /\ SelFrame

InitSelect == InitCompress

NextSelect ==
    \/ /\ sel.pc = "idle"
       /\ \E text \in SelTexts, query \in CQueries, max_chars \in 0..MaxBudget :
               SelectStart(text, query, max_chars)
    \/ SelectStep
    \/ SelectReturn
    \/ SelectDone

SpecSelect == InitSelect /\ [][NextSelect]_vars

---------------------------------------------------------------------------
(* CNTGenerator: the context that generate sends to the language model *)

\* the fields _resolve_text tries after self.text_field
ResolveFallback == <<"content", "texto", "texto_completo", "body", "snippet">>

\* _resolve_text: article.get(self.text_field) or article.get("content") or ...,
\* stripped
resolve_text(text_field, article) ==
    LET order   == <<text_field>> \o ResolveFallback
        present == { i \in 1..Len(order) :
                       order[i] \in DOMAIN article /\ article[order[i]] # <<>> }
    IN  IF present = {} THEN <<>>
        ELSE Strip(article[order[CHOOSE i \in present : \A j \in present : i <= j]])

\* article.get('articulo_completo') or article.get('articulo') or
\* article.get('id') or 'N/A'
art_num(article) ==
    LET order   == <<"articulo_completo", "articulo", "id">>
        present == { i \in 1..Len(order) :
                       order[i] \in DOMAIN article /\ article[order[i]] # <<>> }
    IN  IF present = {} THEN <<"N", "/", "A">>
        ELSE article[order[CHOOSE i \in present : \A j \in present : i <= j]]

\* "\n\n---\n\n"
ContextSeparator == <<"\n", "\n", "-", "-", "-", "\n", "\n">>

\* f"ARTÍCULO {art_num}\n{text}"
ContextPart(num, text) ==
    <<"A", "R", "T", "Í", "C", "U", "L", "O", " ">> \o num \o <<"\n">> \o text

\* _format_context: one part per article that has text, joined by the separator
format_context(text_field, arts) ==
    LET with_text == SelectSeq(arts, LAMBDA a : resolve_text(text_field, a) # <<>>)
    IN  Join([i \in 1..Len(with_text) |->
                ContextPart(art_num(with_text[i]), resolve_text(text_field, with_text[i]))],
             ContextSeparator)

\* the values of text_field: the default and the field of the compressor
TextFields == {"texto", "content"}

GTexts == {TextShort, TextHeaderBody, TextSentences, TextHeaderOnly}

\* result records as search packs them: the text under "texto", the article
\* number under "articulo" when the metadata row has one
GArticles == { [articulo |-> <<"4", "5">>, texto |-> t] : t \in GTexts }
             \cup { [texto |-> t] : t \in GTexts }

GArticleLists == UNION { [1..n -> GArticles] : n \in 0..MaxArticles }

\* the variables the generator leaves alone
GenFrame ==
    /\ UNCHANGED rvars
    /\ UNCHANGED cvars
    /\ UNCHANGED tvars
    /\ UNCHANGED ivars
    /\ UNCHANGED sel
    /\ UNCHANGED wvars

\* CNTGenerator(max_context_chars=..., text_field=...)
CNTGenerator(max_context_chars, text_field) ==
    /\ gen.pc = "none"
    /\ gen' = [NoGen EXCEPT !.pc = "ready",
                            !.text_field = text_field,
                            !.max_context_chars = max_context_chars]
    /\ GenFrame

\* generate(query, articles) up to the request to the language model: compress,
\* format, and send the context in the user message
generate(query, arts) ==
    /\ gen.pc = "ready"
    /\ LET compressed_articles == compress_context(arts, query, gen.max_context_chars)
       IN  gen' = [gen EXCEPT !.pc = "sent",
                              !.articles = arts,
                              !.query = query,
                              !.compressed = compressed_articles,
                              !.context = format_context(gen.text_field,
                                                         compressed_articles)]
    /\ GenFrame

\* the language model answers or the request raises: generate is over
GenerateReturn ==
    /\ gen.pc = "sent"
    /\ gen' = [gen EXCEPT !.pc = "ready", !.articles = <<>>, !.query = <<>>,
                          !.compressed = <<>>, !.context = <<>>]
    /\ GenFrame

InitGenerate == InitCompress

NextGenerate ==
    \/ /\ gen.pc = "none"
       /\ \E max_context_chars \in 0..MaxBudget, text_field \in TextFields :
               CNTGenerator(max_context_chars, text_field)
    \/ /\ gen.pc = "ready"
       /\ \E query \in CQueries, arts \in GArticleLists : generate(query, arts)
    \/ GenerateReturn

SpecGenerate == InitGenerate /\ [][NextGenerate]_vars

---------------------------------------------------------------------------
(* whatsapp_bot: the inbound webhook handler *)

\* MAX_CACHE_SIZE is 1000 in the program. The model keeps the comparison and the
\* clear of the program and scales the size down: the cache is cleared when it
\* holds MAX_CACHE_SIZE + 1 ids, whatever the size is.
MAX_CACHE_SIZE == 2

\* max_len = 4000: the longest body of one WhatsApp text
max_len == 4000

\* the message ids of the platform: enough of them to overflow the cache
MsgIds == 1..(MAX_CACHE_SIZE + 1)

\* msg.get("id") of a message without an id: None
NoId == 0

\* an id that is a JSON array: a value that cannot be looked up in a set
ListId == -1

\* message bodies: blanks only, a greeting in mixed case with a trailing blank,
\* and a question
BodyBlank == <<" ">>
BodyHelp == <<"h", "O", "L", "A", " ">>
BodyQuery == <<"m", "u", "l", "t", "a">>

\* {"hola", "ayuda", "menu", "hi", "hello"}
HelpWords == { <<"h", "o", "l", "a">>, <<"a", "y", "u", "d", "a">>, <<"m", "e", "n", "u">>,
               <<"h", "i">>, <<"h", "e", "l", "l", "o">> }

\* the bodies of the payloads; <<>> stands where the message has no text body
Bodies == {<<>>, BodyBlank, BodyHelp, BodyQuery}

\* (msg.get("text", {}) or {}).get("body", "").strip()
user_text_of == [b \in Bodies |-> Strip(b)]

\* user_text.lower() in {"hola", "ayuda", "menu", "hi", "hello"}
is_help == [b \in Bodies |-> LowerText(user_text_of[b]) \in HelpWords]

\* the lengths of the fixed replies of the bot
ReplyLen == [no_results |-> 98, no_answer |-> 73, query_error |-> 69,
             non_text |-> 40, empty_text |-> 43, error |-> 70, help |-> 194]

\* what the retriever and the generator do inside process_query
RagOutcomes ==
    {"retriever_raises", "no_articles", "generator_raises"}
    \cup {"answer_0", "answer_1", "answer_max", "answer_over"}

\* the length of the stripped answer under an outcome where the model answered
AnswerLenOf ==
    [answer_0 |-> 0, answer_1 |-> 1, answer_max |-> max_len, answer_over |-> max_len + 1]

\* process_query(query): the length of the text it returns; every failure of
\* search and of generate is caught and becomes the fixed apology
process_query(rag) ==
    IF rag = "retriever_raises" THEN ReplyLen.query_error
    ELSE IF rag = "no_articles" THEN ReplyLen.no_results
    ELSE IF rag = "generator_raises" THEN ReplyLen.query_error
    ELSE IF AnswerLenOf[rag] = 0 THEN ReplyLen.no_answer
    ELSE AnswerLenOf[rag]

\* send_whatsapp_text(to, body): the number of requests.post attempts, one per
\* chunk of max_len characters, and one for an empty body; a failing post is
\* caught and the loop goes on
send_whatsapp_text(body_len) ==
    IF body_len = 0 THEN 1 ELSE (body_len + max_len - 1) \div max_len

\* the webhook payloads: a body that is no JSON, a JSON without
\* entry[0].changes[0].value, a value without messages, and a value with a message
Payloads ==
    { [kind |-> k, has_from |-> FALSE, type |-> "", body |-> <<>>,
       body_is_str |-> TRUE, id |-> NoId] : k \in {"bad_json", "no_entry", "no_messages"} }
    \cup { [kind |-> "message", has_from |-> f, type |-> "image", body |-> <<>>,
            body_is_str |-> TRUE, id |-> NoId] : f \in BOOLEAN }
    \cup { [kind |-> "message", has_from |-> f, type |-> "text", body |-> BodyBlank,
            body_is_str |-> TRUE, id |-> NoId] : f \in BOOLEAN }
    \cup { [kind |-> "message", has_from |-> f, type |-> "text", body |-> b,
            body_is_str |-> TRUE, id |-> i] :
               f \in BOOLEAN, b \in {BodyHelp, BodyQuery},
               i \in MsgIds \cup {NoId, ListId} }
    \cup { [kind |-> "message", has_from |-> f, type |-> "text", body |-> <<>>,
            body_is_str |-> FALSE, id |-> NoId] : f \in BOOLEAN }

\* the body of the try block, lines 135-180: what it returns or that it raises,
\* the send attempts it makes, and the cache after it
TryBlock(p, rag, cache) ==
    LET quiet == [raises |-> FALSE, status |-> "", sends |-> 0, queried |-> FALSE,
                  passed |-> FALSE, cache |-> cache]
        user_text == user_text_of[p.body]
        added     == cache \cup {p.id}
        after_add == IF Cardinality(added) > MAX_CACHE_SIZE THEN {} ELSE added
    IN  IF p.kind \in {"bad_json", "no_entry"} THEN [quiet EXCEPT !.raises = TRUE]
        ELSE IF p.kind = "no_messages" THEN [quiet EXCEPT !.status = "no_message"]
        ELSE IF p.type # "text"
             THEN [quiet EXCEPT !.status = "ignored_non_text",
                                !.sends = send_whatsapp_text(ReplyLen.non_text)]
        ELSE IF ~ p.body_is_str THEN [quiet EXCEPT !.raises = TRUE]
        ELSE IF user_text = <<>>
             THEN [quiet EXCEPT !.status = "empty_text",
                                !.sends = send_whatsapp_text(ReplyLen.empty_text)]
        ELSE IF p.id = ListId THEN [quiet EXCEPT !.raises = TRUE]
        ELSE IF p.id \in cache THEN [quiet EXCEPT !.status = "duplicate"]
        ELSE IF is_help[p.body]
             THEN [quiet EXCEPT !.status = "ok_help",
                                !.sends = send_whatsapp_text(ReplyLen.help),
                                !.passed = TRUE,
                                !.cache = after_add]
        ELSE [quiet EXCEPT !.status = "ok",
                           !.sends = send_whatsapp_text(process_query(rag)),
                           !.queried = TRUE,
                           !.passed = TRUE,
                           !.cache = after_add]

\* data["entry"][0]["changes"][0]["value"]["messages"][0]["from"] can be read
HasSender(p) == p.kind = "message" /\ p.has_from

\* an error reply with no handler around it: a payload without a sender would
\* end the request with the exception
ErrorReplyUncaught(p) == ~ HasSender(p)

\* try: from_number = ...; send_whatsapp_text(...) except Exception: pass -- what
\* the error reply raises never leaves the handler
ErrorReplyEscapes(p) == FALSE

\* the variables the webhook handler leaves alone
BotFrame ==
    /\ UNCHANGED rvars
    /\ UNCHANGED cvars
    /\ UNCHANGED tvars
    /\ UNCHANGED ivars
    /\ UNCHANGED sel
    /\ UNCHANGED gen

\* POST /webhook with payload p, while the retriever and the generator behave as
\* rag says and requests.post as send says
inbound_message(p, rag, send) ==
    /\ \E t \in {TryBlock(p, rag, processed_messages)} :
       LET sends  == IF ~ t.raises THEN t.sends
                     ELSE IF HasSender(p) THEN send_whatsapp_text(ReplyLen.error)
                     ELSE 0
       IN  /\ processed_messages' = t.cache
           /\ handled' = IF t.passed THEN handled \cup {p.id} ELSE handled
           /\ webhook' = [kind |-> p.kind, has_from |-> p.has_from, type |-> p.type,
                       body |-> p.body, body_is_str |-> p.body_is_str, id |-> p.id,
                       rag |-> IF t.queried THEN rag ELSE "not_run",
                       send |-> IF sends > 0 THEN send ELSE "not_run",
                       status |-> IF t.raises THEN "error" ELSE t.status,
                       sends |-> sends,
                       queried |-> t.queried,
                       propagated |-> t.raises /\ ErrorReplyEscapes(p)]
    /\ BotFrame

InitBot == InitCompress

\* the payloads that reach process_query with the cache as it is
QueryPayloads ==
    { p \in Payloads : TryBlock(p, "no_articles", processed_messages).queried }

NextBot ==
    \/ \E p \in QueryPayloads, rag \in RagOutcomes, send \in {"ok", "raises"} :
          inbound_message(p, rag, send)
    \/ \E p \in Payloads \ QueryPayloads, send \in {"ok", "raises"} :
          inbound_message(p, "not_run", send)

SpecBot == InitBot /\ [][NextBot]_vars

---------------------------------------------------------------------------
(* The indexer (EmbeddingGenerator) and the query prefix of the retriever *)

MaxChunks == 3    \* chunks in the list given to process

\* model names: 'mpnet', 'e5-b', 'E5-L'
ModelNames ==
    { <<"m", "p", "n", "e", "t">>, <<"e", "5", "-", "b">>, <<"E", "5", "-", "L">> }

\* str.lower() on the letters the model names use
NameLower(t) ==
    [i \in 1..Len(t) |-> IF t[i] = "E" THEN "e" ELSE IF t[i] = "L" THEN "l" ELSE t[i]]

\* self.is_e5 = "e5" in model_name.lower()
is_e5(model_name) == Contains(NameLower(model_name), <<"e", "5">>)

\* 'query: '
QueryPrefix == <<"q", "u", "e", "r", "y", ":", " ">>

\* _prefix_query(q) of a retriever built with model_name
prefix_query(model_name, q) == IF is_e5(model_name) THEN QueryPrefix \o q ELSE q

\* 'passage:' and 'passage: '
PassageMark == <<"p", "a", "s", "s", "a", "g", "e", ":">>

PassagePrefix == PassageMark \o <<" ">>

\* t.startswith(p)
StartsWith(t, p) == Len(t) >= Len(p) /\ SubSeq(t, 1, Len(p)) = p

\* EmbeddingGenerator._to_passage(text)
to_passage(g, text) ==
    IF ~ g.use_query_prefix THEN text
    ELSE IF StartsWith(text, PassageMark) THEN text
    ELSE PassagePrefix \o Strip(text)

\* _prepare_text_for_embedding(obj)
prepare_text_for_embedding(obj) == Strip(obj.full_text)

\* _extract_metadata(obj, idx), the fields the retriever reads
extract_metadata(obj, idx) ==
    [doc_id |-> idx + 1, articulo |-> obj.article_number, texto_completo |-> obj.full_text]

RECURSIVE ProcessLoop(_, _, _, _)
\* for idx, obj in enumerate(chunks): skip the chunks without text, collect the
\* metadata and the passage of the others (i is idx + 1)
ProcessLoop(g, cs, i, acc) ==
    IF i > Len(cs) THEN acc
    ELSE LET text == prepare_text_for_embedding(cs[i])
         IN  IF text = <<>> THEN ProcessLoop(g, cs, i + 1, acc)
             ELSE ProcessLoop(g, cs, i + 1,
                    [metas    |-> Append(acc.metas, extract_metadata(cs[i], i - 1)),
                     passages |-> Append(acc.passages, to_passage(g, text))])

\* full_text of a chunk: '', ' ', 'xx', ' y ' and 'passage:z'
ChunkTexts ==
    { <<>>, <<" ">>, <<"x", "x">>, <<" ", "y", " ">>, PassageMark \o <<"z">> }

\* chunk lists of 1..MaxChunks chunks, articles 45, 46, ...
ChunkLists ==
    UNION { { [i \in 1..n |-> [article_number |-> 44 + i, full_text |-> t[i]]] :
                t \in [1..n -> ChunkTexts] } : n \in 1..MaxChunks }

\* query texts: 'art' and 'x y'
IndexerQueries == { <<"a", "r", "t">>, <<"x", " ", "y">> }

InitIndexer == InitCompress

\* the variables the indexer leaves alone
IndexerFrame ==
    /\ UNCHANGED rvars
    /\ UNCHANGED cvars
    /\ UNCHANGED tvars
    /\ UNCHANGED sel
    /\ UNCHANGED gen
    /\ UNCHANGED wvars

\* EmbeddingGenerator(model_name, use_query_prefix=...)
EmbeddingGenerator(model_name, use_query_prefix) ==
    /\ ~ eg.built
    /\ eg' = [built |-> TRUE, model_name |-> model_name,
              use_query_prefix |-> use_query_prefix]
    /\ UNCHANGED <<chunks, metas, passages, qsent>>
    /\ IndexerFrame

\* EmbeddingGenerator.process on the chunk list cs: meta.jsonl and the index rows
process(cs) ==
    /\ eg.built
    /\ chunks = <<>>
    /\ chunks' = cs
    /\ LET out == ProcessLoop(eg, cs, 1, [metas |-> <<>>, passages |-> <<>>])
       IN  metas' = out.metas /\ passages' = out.passages
    /\ UNCHANGED <<eg, qsent>>
    /\ IndexerFrame

\* a retriever constructed with the indexer's model name prepares the query q
PrefixQuery(q) ==
    /\ eg.built
    /\ qsent = <<>>
    /\ qsent' = prefix_query(eg.model_name, q)
    /\ UNCHANGED <<eg, chunks, metas, passages>>
    /\ IndexerFrame

NextIndexer ==
    \/ /\ ~ eg.built
       /\ \E model_name \in ModelNames, use_query_prefix \in BOOLEAN :
               EmbeddingGenerator(model_name, use_query_prefix)
    \/ /\ eg.built /\ chunks = <<>>
       /\ \E cs \in ChunkLists : process(cs)
    \/ /\ eg.built /\ qsent = <<>>
       /\ \E q \in IndexerQueries : PrefixQuery(q)

SpecIndexer == InitIndexer /\ [][NextIndexer]_vars

---------------------------------------------------------------------------
(* Properties of search and of construction *)

\* the rows of the last call's vector-search output that exist in the corpus
ValidHits == { i \in 1..Len(call.hits) :
                 call.hits[i].idx >= 0 /\ call.hits[i].idx < Len(meta) }

\* the article numbers the last call's query mentions
Mentioned == { extract_article_numbers(call.query)[i] :
                 i \in 1..Len(extract_article_numbers(call.query)) }

\* C1: a call that passes top_k = k (k >= 0, 0 included) returns at most k records.
C1_TopKContract ==
    (call.made /\ call.top_k # <<>>) => Len(result) <= call.top_k[1]

\* C2: a query that mentions article N, N being in the corpus, gets the record of
\* article N first, with score 1.0 and source "direct", in every configuration of
\* the cross-encoder and BM25 stages (queries that mention one article).
C2_DirectFirst ==
    \A n \in Articles :
        (call.made /\ Mentioned = {n} /\ n \in DOMAIN art_to_idx) =>
            /\ Len(result) >= 1
            /\ result[1].articulo = n
            /\ result[1].score = DirectScore
            /\ result[1].source = "direct"

\* C3: the returned list never holds two records with the same article_id.
C3_NoDuplicateArticle ==
    \A i, j \in 1..Len(result) :
        i # j => result[i].articulo # result[j].articulo

\* C3 witness: two hits above the floor are chunks of one article, and the call
\* returned a record of that article.
C3_Witness ==
    /\ call.made
    /\ \E i, j \in ValidHits :
         /\ i # j
         /\ Row(call.hits[i].idx).articulo = Row(call.hits[j].idx).articulo
         /\ call.hits[i].s >= min_score
         /\ call.hits[j].s >= min_score
         /\ \E r \in 1..Len(result) :
              result[r].articulo = Row(call.hits[i].idx).articulo

\* C4: every returned semantic record is a row whose raw similarity was >= min_score,
\* and no row whose raw similarity was below min_score is returned as a semantic record.
C4_EvidenceFloor ==
    /\ \A r \in 1..Len(result) :
         result[r].source = "semantic" =>
            \E i \in ValidHits :
               /\ Row(call.hits[i].idx).doc_id = result[r].doc_id
               /\ call.hits[i].s >= min_score
    /\ \A i \in ValidHits :
         call.hits[i].s < min_score =>
            \A r \in 1..Len(result) :
               ~ (result[r].source = "semantic"
                  /\ result[r].doc_id = Row(call.hits[i].idx).doc_id)

\* C4 witness: one hit below the floor was dropped, another was returned as semantic.
C4_Witness ==
    /\ call.made
    /\ \E i \in ValidHits : call.hits[i].s < min_score
    /\ \E r \in 1..Len(result) : result[r].source = "semantic"

\* C5: the returned list is in non-increasing score order, whichever optional
\* stages are enabled.
C5_SortedByScore ==
    \A i \in 1..(Len(result) - 1) : result[i].score >= result[i + 1].score

\* C5 witness: both optional stages ran, the candidates were produced out of score
\* order, and two or more records with different scores were returned.
C5_Witness ==
    /\ call.made /\ reranker /\ use_bm25
    /\ \E i \in 1..(Len(cands) - 1) : cands[i].score < cands[i + 1].score
    /\ Len(result) >= 2
    /\ result[1].score > result[2].score

\* C6: a retriever is constructed only when the index row count equals the number
\* of metadata records loaded; on a mismatch construction fails.
C6_Alignment ==
    /\ status = "ready" => (index_ntotal = Len(meta) /\ meta = LoadMeta(meta_file))
    /\ (status # "new" /\ index_ntotal # Len(LoadMeta(meta_file))) => status = "failed"

\* C6 witness: construction was attempted on an index with more rows than metadata
\* records (a blank line in the file does not count) and failed.
C6_Witness ==
    /\ status = "failed"
    /\ index_ntotal > Len(LoadMeta(meta_file))
    /\ index_ntotal = Len(meta_file)

\* C10: the candidates right before the final sort are the documents the direct and
\* vector stages produced, with the same provenance, whether or not the cross-encoder
\* and BM25 stages ran: those stages change scores only.
C10_SameCandidates ==
    call.made =>
        LET base == VectorStage(call.query, call.hits)
        IN  /\ Len(cands) = Len(base)
            /\ \A i \in 1..Len(base) :
                 /\ cands[i].doc_id = base[i].doc_id
                 /\ cands[i].articulo = base[i].articulo
                 /\ cands[i].source = base[i].source

\* C10 witness: both stages ran on two or more candidates and re-scored one of them
\* below the evidence floor.
C10_Witness ==
    /\ call.made /\ reranker /\ use_bm25 /\ call.ce.ok
    /\ Len(cands) >= 2
    /\ \E i \in 1..Len(cands) : cands[i].score < min_score

\* C11: when predict raises, search still returns normally and every candidate keeps
\* the score it had before the cross-encoder stage.
C11_PredictFailureKeepsScores ==
    (call.made /\ reranker /\ Len(vcands) > 0 /\ ~ call.ce.ok) =>
        /\ outcome = "returned"
        /\ rcands = vcands

\* C11 witness: predict raised on a direct and a semantic candidate, and the call
\* returned records.
C11_Witness ==
    /\ call.made /\ reranker /\ ~ call.ce.ok
    /\ \E i, j \in 1..Len(vcands) :
          vcands[i].source = "direct" /\ vcands[j].source = "semantic"
    /\ outcome = "returned"
    /\ Len(result) >= 1

\* C12: a query that resolves no direct reference and has no hit at or above
\* min_score gets the empty list, and the call does not raise.
C12_EmptyWithoutEvidence ==
    ( /\ call.made
      /\ Mentioned \cap DOMAIN art_to_idx = {}
      /\ \A i \in 1..Len(call.hits) : call.hits[i].s < min_score ) =>
        /\ outcome = "returned"
        /\ result = <<>>

\* C12 witness: the query mentions an article the corpus lacks, the index gave a
\* hit under the floor, both optional stages are on, and the call returned <<>>.
C12_Witness ==
    /\ call.made /\ reranker /\ use_bm25
    /\ Mentioned # {}
    /\ Mentioned \cap DOMAIN art_to_idx = {}
    /\ ValidHits # {}
    /\ \A i \in 1..Len(call.hits) : call.hits[i].s < min_score
    /\ outcome = "returned"
    /\ result = <<>>

\* the effective k of the last call
LastK == IF call.top_k = <<>> \/ call.top_k[1] = 0 THEN top_k ELSE call.top_k[1]

\* the direct candidates of the last call, by position in the candidate list
DirectCands == { i \in 1..Len(cands) : cands[i].source = "direct" }

\* C15: no semantic record is ranked above a direct one, and every direct hit is in
\* the returned list whenever the direct hits are at most k.
C15_DirectNeverDisplaced ==
    call.made =>
        /\ \A i, j \in 1..Len(result) :
             (i < j /\ result[j].source = "direct") => result[i].source = "direct"
        /\ Cardinality(DirectCands) <= LastK =>
             \A i \in DirectCands :
                \E r \in 1..Len(result) : result[r].doc_id = cands[i].doc_id

LexicalOf(c) ==
    LET r == CHOOSE x \in 1..Len(meta) : meta[x].doc_id = c.doc_id
    IN  call.bm[r]

\* C17: with BM25 enabled and two or more candidates, a final score is
\* 0.7 * existing + 0.3 * (lexical / 10), existing being the score after the
\* cross-encoder stage; with fewer than two candidates the scores are unchanged.
C17_BlendFormula ==
    (call.made /\ use_bm25) =>
        /\ Len(cands) = Len(rcands)
        /\ Len(rcands) >= 2 =>
             \A i \in 1..Len(cands) :
                100 * cands[i].score = 70 * rcands[i].score + 3 * LexicalOf(rcands[i])
        /\ Len(rcands) < 2 => cands = rcands

\* C17 witness: the blend ran on cross-encoder scores with a non-zero lexical score
\* (and a call with one candidate is reached by C17_WitnessSingle).
C17_Witness ==
    /\ call.made /\ use_bm25 /\ reranker /\ call.ce.ok
    /\ Len(rcands) >= 2
    /\ \E i \in 1..Len(rcands) :
          LexicalOf(rcands[i]) > 0 /\ rcands[i].score # vcands[i].score

\* a call with BM25 enabled and exactly one candidate
C17_WitnessSingle ==
    call.made /\ use_bm25 /\ Len(rcands) = 1 /\ call.bm # <<>>
      /\ \E r \in 1..Len(call.bm) : call.bm[r] > 0

\* C18: after the vector stage no candidate is removed except by the final cut to
\* k, whatever the later stages made of its score.
C18_FloorOnlyOnRawSimilarity ==
    call.made =>
        /\ Len(rcands) = Len(vcands)
        /\ Len(cands) = Len(vcands)
        /\ Len(result) = Min(Len(vcands), LastK)
        /\ \A r \in 1..Len(result) :
             \E i \in 1..Len(cands) : result[r] = cands[i]
        /\ \A i \in 1..Len(vcands) :
             vcands[i].source = "semantic" =>
                \E h \in ValidHits :
                   /\ Row(call.hits[h].idx).doc_id = vcands[i].doc_id
                   /\ call.hits[h].s >= min_score

\* C18 witness: a returned semantic record has a final score under min_score.
C18_Witness ==
    /\ call.made
    /\ \E r \in 1..Len(result) :
          result[r].source = "semantic" /\ result[r].score < min_score

\* what a call with the arguments of frame f returns when no other call runs
Alone(f) ==
    Assemble(BM25Stage(Rerank(VectorStage(f.query, f.hits), f.ce), f.bm), f.top_k)

\* C13: in every interleaving of the stages of concurrent search calls, a call
\* returns what it returns when it runs alone, and no step of a call changes meta,
\* art_to_idx or the configuration.
C13_ConcurrentCallsIndependent ==
    /\ [](\A t \in Calls : frames[t].pc = "done" => frames[t].ret = Alone(frames[t]))
    /\ [][status = "ready" =>
            UNCHANGED <<meta, art_to_idx, top_k, overfetch, min_score, use_bm25,
                        reranker>>]_vars

\* C13 witness: a call has returned a record of article 118 while another call,
\* between its stages, holds article 118 in its own seen set.
C13_Witness ==
    \E t, u \in Calls :
        /\ t # u
        /\ frames[t].pc = "done"
        /\ \E r \in 1..Len(frames[t].ret) : frames[t].ret[r].articulo = 118
        /\ frames[u].pc \in {"CE", "C", "D"}
        /\ 118 \in locals[LocalsOf(u)].seen
        /\ frames[u].query # frames[t].query

\* C21: the number of neighbours requested from the index (overfetch, the length of
\* the hit list) is at least the k that cuts the call's result, a per-call top_k
\* above the constructor's values included.
C21_OverfetchCoversK ==
    call.made => (overfetch >= LastK /\ Len(call.hits) >= LastK)

\* the position of a record in the candidate list of the last call
CandPos(rec) == CHOOSE i \in 1..Len(cands) : cands[i].doc_id = rec.doc_id

\* the position of the first hit of the last call that is the row of a record
HitPos(rec) ==
    CHOOSE h \in ValidHits :
        /\ Row(call.hits[h].idx).doc_id = rec.doc_id
        /\ \A g \in ValidHits : Row(call.hits[g].idx).doc_id = rec.doc_id => h <= g

\* C24: records with equal final score are returned in the order in which the
\* candidates were produced: direct hits in ascending article number, then
\* semantic hits in vector-search order.
C24_TiesKeepProductionOrder ==
    call.made =>
        /\ \A i, j \in 1..Len(result) :
             (i < j /\ result[i].score = result[j].score) =>
                CandPos(result[i]) < CandPos(result[j])
        /\ \A i, j \in 1..Len(cands) :
             i < j =>
                /\ cands[j].source = "direct" =>
                      (cands[i].source = "direct" /\ cands[i].articulo < cands[j].articulo)
                /\ (cands[i].source = "semantic" /\ cands[j].source = "semantic") =>
                      HitPos(cands[i]) < HitPos(cands[j])

\* C24 witness: a direct and a semantic record were returned with one score, and
\* so were two semantic records.
C24_Witness ==
    /\ call.made
    /\ \E i, j \in 1..Len(result) :
          /\ i < j /\ result[i].score = result[j].score
          /\ result[i].source = "direct" /\ result[j].source = "semantic"

\* two semantic records returned with one score
C24_WitnessSemantic ==
    /\ call.made
    /\ \E i, j \in 1..Len(result) :
          /\ i < j /\ result[i].score = result[j].score
          /\ result[i].source = "semantic" /\ result[j].source = "semantic"
          /\ result[i].doc_id > result[j].doc_id

\* the 1-based rows of self.meta that hold article n
RowsOfArticle(n) == { r \in 1..Len(meta) : meta[r].articulo = n }

\* C28: when several rows share the article number N, a query that mentions N
\* gets exactly one direct candidate for N, the record of the highest such row.
C28_LastRowWinsDirect ==
    call.made =>
        \A n \in Mentioned :
            RowsOfArticle(n) # {} =>
                LET last == CHOOSE r \in RowsOfArticle(n) : \A q \in RowsOfArticle(n) : q <= r
                    hits == { i \in 1..Len(vcands) :
                                vcands[i].source = "direct" /\ vcands[i].articulo = n }
                IN  /\ Cardinality(hits) = 1
                    /\ \A i \in hits : vcands[i].doc_id = meta[last].doc_id

\* C28 witness: two rows hold article 45, the query mentions 45, and the call
\* returned the second row as its direct hit.
C28_Witness ==
    /\ call.made
    /\ 45 \in Mentioned
    /\ Cardinality(RowsOfArticle(45)) >= 2
    /\ \E r \in 1..Len(result) :
          /\ result[r].source = "direct"
          /\ result[r].articulo = 45
          /\ result[r].doc_id = meta[Len(meta)].doc_id

\* the rows of the corpus that are candidates of the last call
CandidateRows ==
    { r \in 1..Len(meta) : \E i \in 1..Len(cands) : cands[i].doc_id = meta[r].doc_id }

\* the corpora that differ from self.meta at most in the text of records that are
\* not candidates of the last call
OtherCorpora ==
    { [r \in 1..Len(meta) |-> [meta[r] EXCEPT !.texto = t[r]]] :
        t \in { u \in [1..Len(meta) -> LexTexts] :
                  \A r \in CandidateRows : u[r] = meta[r].texto } }

\* C19: for a fixed query and candidate list, a change of the text of corpus
\* records that are not candidates changes no candidate's lexical or final score.
C19_LexicalOverCandidatesOnly ==
    (call.made /\ use_bm25 /\ Len(rcands) >= 2) =>
        \A other \in OtherCorpora :
            LET bm == get_scores(BM25Okapi(tokens_corpus(other)), tokenize(call.query))
            IN  /\ \A r \in CandidateRows : bm[r] = call.bm[r]
                /\ BM25Stage(rcands, bm) = cands

\* the hits of the last call whose row is a row of the corpus
InRangeHits == SelectSeq(call.hits, LAMBDA h : h.idx >= 0 /\ h.idx < Len(meta))

\* C20: a row number that is negative or >= len(meta) is skipped: the call
\* returns, no candidate comes from it, and the candidates are those of the same
\* call without the out-of-range rows.
C20_OutOfRangeSkipped ==
    call.made =>
        /\ outcome = "returned"
        /\ vcands = VectorStage(call.query, InRangeHits)
        /\ \A i \in 1..Len(vcands) :
             vcands[i].source = "semantic" =>
                \E h \in 1..Len(InRangeHits) :
                   Row(InRangeHits[h].idx).doc_id = vcands[i].doc_id

\* C20 witness: the backend returned a row past the end of the corpus with a
\* similarity above the floor, then a row of the corpus, which the call returned.
C20_Witness ==
    /\ call.made
    /\ \E i, j \in 1..Len(call.hits) :
          /\ i < j
          /\ call.hits[i].idx >= Len(meta) /\ call.hits[i].s >= min_score
          /\ call.hits[j].idx >= 0 /\ call.hits[j].idx < Len(meta)
          /\ \E r \in 1..Len(result) :
                /\ result[r].source = "semantic"
                /\ result[r].doc_id = Row(call.hits[j].idx).doc_id

\* a negative row ahead of a row of the corpus that the call returned
C20_WitnessNegative ==
    /\ call.made
    /\ \E i, j \in 1..Len(call.hits) :
          /\ i < j
          /\ call.hits[i].idx < 0 /\ call.hits[i].s >= min_score
          /\ call.hits[j].idx >= 0 /\ call.hits[j].idx < Len(meta)
          /\ \E r \in 1..Len(result) :
                /\ result[r].source = "semantic"
                /\ result[r].doc_id = Row(call.hits[j].idx).doc_id

---------------------------------------------------------------------------
(* Properties of compress_context *)

\* the records of the returned list that carry the compressed flag
CompressedOut == { i \in 1..Len(cout) : "compressed" \in DOMAIN cout[i] }

\* the text a consumer reads from an output record: the shortened text of a
\* compressed record, the resolved original text of any other
EffectiveText(rec) ==
    IF "compressed" \in DOMAIN rec THEN rec["content"] ELSE resolve_article_text(rec)

RECURSIVE TotalEffective(_)
TotalEffective(recs) ==
    IF recs = <<>> THEN 0
    ELSE Len(EffectiveText(Head(recs))) + TotalEffective(Tail(recs))

\* C7: when the resolved texts together are within the budget, the call returns its
\* input list unchanged: no record gains a flag or a field.
C7_PassThrough ==
    (cstate = "returned" /\ TotalChars(articles) <= max_total_chars) => cout = articles

\* C7 witness: a list returned unchanged that exactly fills the budget and holds an
\* article longer than an equal share of it.
C7_Witness ==
    /\ cstate = "returned"
    /\ TotalChars(articles) = max_total_chars
    /\ \E i \in 1..Len(articles) :
          Len(resolve_article_text(articles[i])) > max_total_chars \div Len(articles)
    /\ cout = articles

\* C8: the shortened text of every compressed article is at most the per-article
\* budget (max_total_chars // article_count) plus the length of the marker "...".
C8_BudgetRespect ==
    cstate = "returned" =>
        \A i \in CompressedOut :
            Len(cout[i]["content"]) <= max_total_chars \div Len(articles) + Len(Ellipsis)

\* C8 witness: an article whose header alone exceeds its share was cut and marked,
\* and its shortened text is exactly the share plus the marker.
C8_Witness ==
    /\ cstate = "returned"
    /\ \E i \in CompressedOut :
          /\ Len(cout[i]["content"]) = max_total_chars \div Len(articles) + Len(Ellipsis)
          /\ max_total_chars \div Len(articles) > 0

\* C9 as stated: after a call on a non-empty list the effective texts of the output
\* records together are within the budget.
C9_TotalWithinBudget ==
    (cstate = "returned" /\ articles # <<>>) => TotalEffective(cout) <= max_total_chars

\* C9 amended: after a call on a non-empty list the effective texts of the output
\* records together exceed the budget by at most the marker length for each
\* compressed record.
C9_TotalWithinBudgetPlusMarkers ==
    (cstate = "returned" /\ articles # <<>>) =>
        TotalEffective(cout) <= max_total_chars + Len(Ellipsis) * Cardinality(CompressedOut)

\* C9 witness: a call compressed every article of a two-article list and the output
\* is over the budget by the full allowance.
C9_Witness ==
    /\ cstate = "returned"
    /\ Len(articles) = 2
    /\ Cardinality(CompressedOut) = 2
    /\ TotalEffective(cout) = max_total_chars + Len(Ellipsis) * 2

\* C14: every compressed output record carries compressed = TRUE and the shortened
\* text under "content", and every field of its input record is in it with the value
\* the input had, whichever field of the priority list held the original text.
C14_OriginalFieldsKept ==
    cstate = "returned" =>
        \A i \in CompressedOut :
            /\ cout[i]["compressed"] = TRUE
            /\ "content" \in DOMAIN cout[i]
            /\ \A k \in DOMAIN articles[i] :
                 k \in DOMAIN cout[i] /\ cout[i][k] = articles[i][k]

\* C25: when compress_context compresses, the output has the records of the input
\* in number and order, and an article whose resolved text is within the
\* per-article budget is the unmodified input record.
C25_ShortArticlesVerbatim ==
    (cstate = "returned" /\ TotalChars(articles) > max_total_chars) =>
        /\ Len(cout) = Len(articles)
        /\ \A i \in 1..Len(articles) :
             LET share == max_total_chars \div Len(articles)
                 text  == resolve_article_text(articles[i])
             IN  /\ Len(text) <= share => cout[i] = articles[i]
                 /\ Len(text) > share =>
                       /\ i \in CompressedOut
                       /\ cout[i]["content"] = compress_article(text, cquery, share)

\* C25 witness: a call that compressed one article returned another, exactly as
\* long as its share, unmodified.
C25_Witness ==
    /\ cstate = "returned"
    /\ TotalChars(articles) > max_total_chars
    /\ \E i, j \in 1..Len(articles) :
          /\ Len(resolve_article_text(articles[i])) = max_total_chars \div Len(articles)
          /\ cout[i] = articles[i]
          /\ j < i
          /\ j \in CompressedOut

\* the stepwise loop returns what compress_article returns
SelectAgrees ==
    sel.pc = "done" => sel.result = compress_article(sel.text, sel.query, sel.max_chars)

\* C26: the selected sentences are appended in non-increasing score order, and
\* no sentence is appended once the accumulated length has reached 90% of the
\* per-article budget.
C26_ScoreOrderAndEarlyStop ==
    /\ [](\A a, b \in 1..Len(sel.selected) :
            a < b => sel.selected[a].score >= sel.selected[b].score)
    /\ [][(sel.pc = "loop" /\ Len(sel'.selected) > Len(sel.selected)) =>
            10 * sel.current_len < 9 * sel.max_chars]_vars

---------------------------------------------------------------------------
(* Properties of the generator *)

\* the positions of the records that compress_context flagged as compressed
GenCompressed ==
    { i \in 1..Len(gen.compressed) : "compressed" \in DOMAIN gen.compressed[i] }

\* C27: for every article flagged compressed inside generate, the context sent to
\* the language model holds the shortened text of the article and not its full
\* original text, for records that carry the text under "texto".
C27_ContextHasShortenedText ==
    gen.pc = "sent" =>
        \A i \in GenCompressed :
            /\ resolve_text(gen.text_field, gen.compressed[i])
                  = Strip(gen.compressed[i]["content"])
            /\ ~Contains(gen.context, Strip(gen.articles[i]["texto"]))

---------------------------------------------------------------------------
(* Properties of the webhook handler *)

\* the request is a text message whose body is a string with more than blanks
TextWithBody(r) ==
    /\ r.kind = "message"
    /\ r.type = "text"
    /\ r.body_is_str
    /\ user_text_of[r.body] # <<>>

\* the status objects of the handler
Statuses == {"no_message", "ignored_non_text", "empty_text", "duplicate", "ok_help",
             "ok", "error"}

\* C29: a text message id is processed at most once: a delivery whose id already
\* got past the deduplication returns the status "duplicate", runs no query and
\* sends no reply.
C29_ProcessedAtMostOnce ==
    [][(TextWithBody(webhook') /\ webhook'.id \in handled \cap MsgIds) =>
          /\ webhook'.status = "duplicate"
          /\ ~ webhook'.queried
          /\ webhook'.sends = 0]_vars

\* C30: the handler never lets an exception out and returns a status object for
\* every payload and every failure of the retriever, the generator and the send
\* call; a text message with a body and with an id that is not in the cache
\* (a string, or no id at all) leads to at least one send attempt.
C30_HandlerAlwaysAnswers ==
    /\ [](webhook.kind # "none" =>
            /\ ~ webhook.propagated
            /\ webhook.status \in Statuses)
    /\ [][(/\ TextWithBody(webhook')
           /\ webhook'.id \in MsgIds \cup {NoId}
           /\ webhook'.id \notin processed_messages) =>
              webhook'.sends >= 1]_vars

\* C30 witness: the generator failed inside process_query and the post of the
\* reply failed too; the handler made its send attempt and returned "ok".
C30_Witness ==
    /\ TextWithBody(webhook)
    /\ webhook.rag = "generator_raises"
    /\ webhook.send = "raises"
    /\ webhook.status = "ok"
    /\ webhook.sends >= 1
    /\ ~ webhook.propagated

\* a payload that is no JSON ended in the status "error" with no send attempt
C30_WitnessError ==
    /\ webhook.kind = "bad_json"
    /\ webhook.status = "error"
    /\ webhook.sends = 0
    /\ ~ webhook.propagated

---------------------------------------------------------------------------
(* Properties of the indexer *)

\* the chunk that index row i (1-based) was made from
ChunkOfRow(i) == chunks[metas[i].doc_id]

\* C22: the retriever prefixes the query with 'query: ' exactly when the indexer,
\* built with the same model name, prefixed the passages with 'passage: '
\* (passages whose text does not bring a 'passage:' of its own).
C22_PrefixConventionsAgree ==
    (eg.built /\ qsent # <<>>) =>
        \A i \in 1..Len(passages) :
            ~ StartsWith(ChunkOfRow(i).full_text, PassageMark) =>
                (StartsWith(passages[i], PassagePrefix) <=> StartsWith(qsent, QueryPrefix))

\* C23: in the metadata table process wrote, the record at 0-based row i has
\* doc_id = i + 1 and index row i is the passage of that record's chunk, chunk
\* lists with skipped chunks included.
C23_DocIdIsRowPlusOne ==
    chunks # <<>> =>
        /\ Len(metas) = Len(passages)
        /\ \A r \in 1..Len(metas) :
             /\ metas[r].doc_id = r
             /\ metas[r].texto_completo = ChunkOfRow(r).full_text

=============================================================================
